---- MODULE Spec2Model ----
(***************************************************************************)
(* Model of stream_alert/rule_processor/handler.py: the StreamAlert class  *)
(* (run, s3_process, kinesis_process, sns_process, process_alerts,         *)
(* send_alerts).  One StreamAlert instance is modelled; run may be called  *)
(* on it any number of times.  The collaborators (load_config, load_env,   *)
(* StreamClassifier, StreamPreParsers, StreamRules, StreamSink) are        *)
(* external: each call returns a value chosen from a small set, or raises. *)
(* Strings that the handler transforms (the lines of an S3 object) are     *)
(* sequences of one-character strings.                                     *)
(***************************************************************************)
EXTENDS Naturals, Sequences, FiniteSets

\* ------------------------------------------------------------- bounds
MaxRecords == 2
MaxLines == 2
MaxAlerts == 2
MaxAccum == 3

\* ------------------------------------------------------- input domains
Whitespace == {" ", "\n", "\t"}
LineSet == {<<" ", "a", " ", "\n">>, <<"\n">>}
DataSet == {<<>>, <<"a", " ">>}
Services == {"s3", "kinesis", "sns", "firehose"}
Stages == {"development", "production"}
AlertKinds == {"r1", "r2"}

SeqsUpTo(S, n) == UNION {[1..k -> S] : k \in 0..n}

\* An event is a dict that may or may not have the key 'Records'.
Events ==
    {[hasRecords |-> FALSE, Records |-> <<>>]} \cup
    {[hasRecords |-> TRUE, Records |-> [k \in 1..n |-> k]] :
        n \in 0..MaxRecords}

\* ------------------------------------------------------------- state
VARIABLES
    return_alerts,  \* self.return_alerts
    alerts,         \* self.alerts
    pc,             \* position of the one thread of control
    event,          \* run's argument
    env,            \* local of run
    idx,            \* number of records the for loop has taken
    payload,        \* local of run (NoPayload while unbound)
    s3_file_lines,  \* local of s3_process
    ln,             \* number of lines the inner for loop has taken
    data,           \* local: the data unit handed to process_alerts
    calls,          \* collaborator calls made for the current record
    out,            \* send_alerts invocation and what it did, this run
    retval,         \* what run returned
    raised,         \* the exception that ended run, or "none"
    expected,       \* the rule results of this run, concatenated in the
                    \* order the evaluations were made
    startLen,       \* Len(self.alerts) when this run was entered
    all_skipped     \* no record of this run has passed the source gate

vars == <<return_alerts, alerts, pc, event, env, idx, payload, s3_file_lines,
          ln, data, calls, out, retval, raised, expected, startLen,
          all_skipped>>

\* ------------------------------------------------------------ helpers
\* obj tells the payload objects of one run apart: the n-th one built has
\* obj = n
NoPayload ==
    [bound |-> FALSE, obj |-> 0, raw_record |-> 0, service |-> "none",
     valid_source |-> FALSE, valid |-> FALSE, data |-> <<>>]

NoEnv == [lambda_alias |-> "unbound"]

NotReturned == [returned |-> FALSE, value |-> <<>>, none |-> FALSE]
ReturnNone == [returned |-> TRUE, value |-> <<>>, none |-> TRUE]
ReturnValue(v) == [returned |-> TRUE, value |-> v, none |-> FALSE]

Call(op, d) == [op |-> op, data |-> d]

Effect(op, a, e, p) == [op |-> op, alerts |-> a, env |-> e, payload |-> p]

\* StreamPayload(raw_record=record)
StreamPayload(record) ==
    [bound |-> TRUE, obj |-> 0, raw_record |-> record, service |-> "none",
     valid_source |-> FALSE, valid |-> FALSE, data |-> <<>>]

\* payload.refresh_record(data)
RefreshRecord(p, d) == [p EXCEPT !.data = d]

\* event.get('Records', [])
GetRecords(e) == IF e.hasRecords THEN e.Records ELSE <<>>

\* a strip that removes one trailing character only
RStripOnce(line) ==
    IF line /= <<>> /\ line[Len(line)] \in Whitespace
    THEN SubSeq(line, 1, Len(line) - 1)
    ELSE line

\* line.rstrip()
RECURSIVE RStrip(_)
RStrip(line) ==
    IF line = <<>> THEN line
    ELSE IF line[Len(line)] \in Whitespace
         THEN RStrip(SubSeq(line, 1, Len(line) - 1))
         ELSE line

\* a loop that stops after its first element
LoopDoneEarly(n, records) == n >= 1 \/ n >= Len(records)

\* for record in ...: is the iterator exhausted?
LoopDone(n, records) == n >= Len(records)

\* a gate that lets every record through
SourceGateOpen(p) == TRUE

\* if not payload.valid_source
SourceGate(p) == p.valid_source

\* a validity test that reads the source flag instead of the data flag
PayloadValidSource(p) == p.valid_source

\* a validity test that lets every data unit through
PayloadValidAlways(p) == TRUE

\* if payload.valid
PayloadValid(p) == p.valid

\* an accumulator that is assigned the new alerts instead of extended
ExtendReplace(acc, new) == IF new /= <<>> THEN new ELSE acc

\* an accumulator that puts the new alerts in front
ExtendFront(acc, new) == IF new /= <<>> THEN new \o acc ELSE acc

\* if alerts: self.alerts.extend(alerts)
Extend(acc, new) == IF new /= <<>> THEN acc \o new ELSE acc

\* a stage test that takes every stage for development
IsDevelopmentAlways(e) == TRUE

\* if env['lambda_alias'] == 'development'
IsDevelopment(e) == e.lambda_alias = "development"

\* a handler that catches what per-record processing raises and goes on with
\* the next record
OnRaiseContinue(where) ==
    IF where \in {"map_source", "pre_parse_s3", "pre_parse_kinesis",
                  "pre_parse_sns", "classify_record", "StreamRules.process"}
    THEN "loop"
    ELSE "error"

\* an exception a collaborator raises is not caught anywhere in the class
OnRaise(where) == "error"

\* a dispatch whose last branch is a plain else
ServiceBranchElseSns(service) ==
    IF service = "s3" THEN "pre_parse_s3"
    ELSE IF service = "kinesis" THEN "pre_parse_kinesis"
    ELSE "pre_parse_sns"

\* a dispatch with the kinesis and sns handlers exchanged
ServiceBranchSwapped(service) ==
    IF service = "s3" THEN "pre_parse_s3"
    ELSE IF service = "kinesis" THEN "pre_parse_sns"
    ELSE IF service = "sns" THEN "pre_parse_kinesis"
    ELSE "unsupported"

\* if payload.service == 's3': ... elif 'kinesis': ... elif 'sns': ... else
ServiceBranch(service) ==
    IF service = "s3" THEN "pre_parse_s3"
    ELSE IF service = "kinesis" THEN "pre_parse_kinesis"
    ELSE IF service = "sns" THEN "pre_parse_sns"
    ELSE "unsupported"

\* a loop body that goes to the gate without calling map_source
AfterPayloadBuiltNoMap == "gate"

\* payload = StreamPayload(...); classifier = StreamClassifier(...);
\* classifier.map_source(payload): the call that follows the construction
AfterPayloadBuilt == "map_source"

\* a delivery decision that traces whenever there are no alerts
NoAlertsTraceAlways(p) == TRUE

\* elif payload.valid: logger.debug('Valid data, no alerts')
NoAlertsTrace(p) == p.valid

\* where control goes after process_alerts returns
AfterUnit(service) == IF service = "s3" THEN "s3_loop" ELSE "loop"

\* ------------------------------------------------------------- Init
Init ==
    /\ return_alerts \in BOOLEAN
    /\ alerts = <<>>
    /\ pc = "ready"
    /\ event = [hasRecords |-> FALSE, Records |-> <<>>]
    /\ env = NoEnv
    /\ idx = 0
    /\ payload = NoPayload
    /\ s3_file_lines = <<>>
    /\ ln = 0
    /\ data = <<>>
    /\ calls = <<>>
    /\ out = <<>>
    /\ retval = NotReturned
    /\ raised = "none"
    /\ expected = <<>>
    /\ startLen = 0
    /\ all_skipped = TRUE

\* ------------------------------------------------------------ actions
Raise(what) ==
    /\ pc' = OnRaise(what)
    /\ raised' = what

\* run(event, context): entry, up to the call of load_config
Run ==
    /\ pc \in {"ready", "done", "error"}
    /\ \E e \in Events : event' = e
    /\ pc' = "load_config"
    /\ env' = NoEnv
    /\ idx' = 0
    /\ payload' = NoPayload
    /\ s3_file_lines' = <<>>
    /\ ln' = 0
    /\ data' = <<>>
    /\ calls' = <<>>
    /\ out' = <<>>
    /\ retval' = NotReturned
    /\ raised' = "none"
    /\ expected' = <<>>
    /\ startLen' = Len(alerts)
    /\ all_skipped' = TRUE
    /\ UNCHANGED <<return_alerts, alerts>>

\* config = load_config()
LoadConfig ==
    /\ pc = "load_config"
    /\ \/ pc' = "load_env" /\ UNCHANGED raised
       \/ Raise("load_config")
    /\ UNCHANGED <<return_alerts, alerts, event, env, idx, payload,
                   s3_file_lines, ln, data, calls, out, retval, expected,
                   startLen, all_skipped>>

\* env = load_env(context)
LoadEnv ==
    /\ pc = "load_env"
    /\ \/ /\ \E s \in Stages : env' = [lambda_alias |-> s]
          /\ pc' = "loop"
          /\ UNCHANGED raised
       \/ Raise("load_env") /\ UNCHANGED env
    /\ UNCHANGED <<return_alerts, alerts, event, idx, payload,
                   s3_file_lines, ln, data, calls, out, retval, expected,
                   startLen, all_skipped>>

\* for record in event.get('Records', []): payload = StreamPayload(...)
ForRecord ==
    /\ pc = "loop"
    /\ IF LoopDone(idx, GetRecords(event))
       THEN /\ pc' = "end_loop"
            /\ UNCHANGED <<idx, payload, calls, ln, s3_file_lines, data>>
       ELSE /\ idx' = idx + 1
            /\ payload' = [StreamPayload(GetRecords(event)[idx + 1])
                             EXCEPT !.obj = idx + 1]
            /\ calls' = <<>>
            /\ ln' = 0
            /\ s3_file_lines' = <<>>
            /\ data' = <<>>
            /\ pc' = AfterPayloadBuilt
    /\ UNCHANGED <<return_alerts, alerts, event, env, out, retval, raised,
                   expected, startLen, all_skipped>>

\* classifier.map_source(payload)
MapSource ==
    /\ pc = "map_source"
    /\ \/ /\ \E v \in BOOLEAN, s \in Services :
                payload' = [payload EXCEPT !.valid_source = v, !.service = s]
          /\ calls' = Append(calls, Call("map_source", <<>>))
          /\ pc' = "gate"
          /\ UNCHANGED raised
       \/ /\ Raise("map_source")
          /\ UNCHANGED <<payload, calls>>
    /\ UNCHANGED <<return_alerts, alerts, event, env, idx, s3_file_lines,
                   ln, data, out, retval, expected, startLen, all_skipped>>

\* if not payload.valid_source: continue; else dispatch on payload.service
Dispatch ==
    /\ pc = "gate"
    /\ all_skipped' = (all_skipped /\ ~SourceGate(payload))
    /\ IF ~SourceGate(payload)
       THEN pc' = "loop" /\ UNCHANGED calls
       ELSE IF ServiceBranch(payload.service) /= "unsupported"
       THEN pc' = ServiceBranch(payload.service) /\ UNCHANGED calls
       ELSE /\ calls' = Append(calls, Call("logger.info", <<>>))
            /\ pc' = "loop"
    /\ UNCHANGED <<return_alerts, alerts, event, env, idx, payload,
                   s3_file_lines, ln, data, out, retval, raised, expected,
                   startLen>>

\* s3_file_lines = StreamPreParsers.pre_parse_s3(payload.raw_record)
PreParseS3 ==
    /\ pc = "pre_parse_s3"
    /\ \/ /\ \E lines \in SeqsUpTo(LineSet, MaxLines) : s3_file_lines' = lines
          /\ calls' = Append(calls, Call("pre_parse_s3", <<>>))
          /\ pc' = "s3_loop"
          /\ UNCHANGED raised
       \/ /\ Raise("pre_parse_s3")
          /\ UNCHANGED <<s3_file_lines, calls>>
    /\ UNCHANGED <<return_alerts, alerts, event, env, idx, payload, ln, data,
                   out, retval, expected, startLen, all_skipped>>

\* for line in s3_file_lines: data = line.rstrip();
\* payload.refresh_record(data); self.process_alerts(classifier, payload, data)
S3Loop ==
    /\ pc = "s3_loop"
    /\ IF LoopDone(ln, s3_file_lines)
       THEN /\ pc' = "loop"
            /\ UNCHANGED <<ln, data, payload, calls>>
       ELSE LET d == RStrip(s3_file_lines[ln + 1]) IN
            /\ ln' = ln + 1
            /\ data' = d
            /\ payload' = RefreshRecord(payload, d)
            /\ calls' = calls \o <<Call("refresh_record", d),
                                   Call("process_alerts", d)>>
            /\ pc' = "classify_record"
    /\ UNCHANGED <<return_alerts, alerts, event, env, idx, s3_file_lines,
                   out, retval, raised, expected, startLen,
                   all_skipped>>

\* data = StreamPreParsers.pre_parse_kinesis(payload.raw_record);
\* self.process_alerts(classifier, payload, data)
KinesisProcess ==
    /\ pc = "pre_parse_kinesis"
    /\ \/ /\ \E d \in DataSet :
                /\ data' = d
                /\ calls' = calls \o <<Call("pre_parse_kinesis", d),
                                       Call("process_alerts", d)>>
          /\ pc' = "classify_record"
          /\ UNCHANGED raised
       \/ /\ Raise("pre_parse_kinesis")
          /\ UNCHANGED <<data, calls>>
    /\ UNCHANGED <<return_alerts, alerts, event, env, idx, payload,
                   s3_file_lines, ln, out, retval, expected, startLen,
                   all_skipped>>

\* data = StreamPreParsers.pre_parse_sns(payload.raw_record);
\* self.process_alerts(classifier, payload, data)
SnsProcess ==
    /\ pc = "pre_parse_sns"
    /\ \/ /\ \E d \in DataSet :
                /\ data' = d
                /\ calls' = calls \o <<Call("pre_parse_sns", d),
                                       Call("process_alerts", d)>>
          /\ pc' = "classify_record"
          /\ UNCHANGED raised
       \/ /\ Raise("pre_parse_sns")
          /\ UNCHANGED <<data, calls>>
    /\ UNCHANGED <<return_alerts, alerts, event, env, idx, payload,
                   s3_file_lines, ln, out, retval, expected, startLen,
                   all_skipped>>

\* classifier.classify_record(payload, data)
ClassifyRecord ==
    /\ pc = "classify_record"
    /\ \/ /\ \E v \in BOOLEAN : payload' = [payload EXCEPT !.valid = v]
          /\ calls' = Append(calls, Call("classify_record", data))
          /\ pc' = "valid_check"
          /\ UNCHANGED raised
       \/ /\ Raise("classify_record")
          /\ UNCHANGED <<payload, calls>>
    /\ UNCHANGED <<return_alerts, alerts, event, env, idx, s3_file_lines,
                   ln, data, out, retval, expected, startLen, all_skipped>>

\* if payload.valid: alerts = StreamRules.process(payload);
\*                   if alerts: self.alerts.extend(alerts)
\* else: logger.error(...)
ProcessAlerts ==
    /\ pc = "valid_check"
    /\ IF PayloadValid(payload)
       THEN \/ /\ \E new \in SeqsUpTo(AlertKinds, MaxAlerts) :
                     /\ Len(alerts) + Len(new) <= MaxAccum
                     /\ alerts' = Extend(alerts, new)
                     /\ expected' = expected \o new
               /\ calls' = Append(calls, Call("StreamRules.process", data))
               /\ pc' = AfterUnit(payload.service)
               /\ UNCHANGED raised
            \/ /\ Raise("StreamRules.process")
               /\ UNCHANGED <<alerts, expected, calls>>
       ELSE /\ calls' = Append(calls, Call("logger.error", data))
            /\ pc' = AfterUnit(payload.service)
            /\ UNCHANGED <<alerts, expected, raised>>
    /\ UNCHANGED <<return_alerts, event, env, idx, payload, s3_file_lines,
                   ln, data, out, retval, startLen, all_skipped>>

\* if self.return_alerts: return self.alerts
\* self.send_alerts(env, payload)
EndLoop ==
    /\ pc = "end_loop"
    /\ IF return_alerts
       THEN /\ retval' = ReturnValue(alerts)
            /\ pc' = "done"
            /\ UNCHANGED <<out, raised>>
       ELSE IF ~payload.bound
       THEN /\ Raise("UnboundLocalError")
            /\ UNCHANGED <<out, retval>>
       ELSE /\ out' = Append(out, Effect("send_alerts", <<>>, env, payload))
            /\ pc' = "send_alerts"
            /\ UNCHANGED <<retval, raised>>
    /\ UNCHANGED <<return_alerts, alerts, event, env, idx, payload,
                   s3_file_lines, ln, data, calls, expected, startLen,
                   all_skipped>>

\* send_alerts(self, env, payload)
SendAlerts ==
    /\ pc = "send_alerts"
    /\ IF alerts /= <<>>
       THEN IF IsDevelopment(env)
            THEN /\ out' = out \o
                       <<Effect("logger.info count", alerts, NoEnv, NoPayload),
                         Effect("logger.info dump", alerts, NoEnv, NoPayload)>>
                 /\ pc' = "done"
                 /\ retval' = ReturnNone
                 /\ UNCHANGED raised
            ELSE /\ out' = Append(out, Effect("StreamSink.sink", alerts, env,
                                              NoPayload))
                 /\ \/ pc' = "done" /\ retval' = ReturnNone /\ UNCHANGED raised
                    \/ Raise("StreamSink.sink") /\ UNCHANGED retval
       ELSE /\ IF NoAlertsTrace(payload)
               THEN out' = Append(out, Effect("logger.debug", <<>>, NoEnv,
                                              NoPayload))
               ELSE UNCHANGED out
            /\ pc' = "done"
            /\ retval' = ReturnNone
            /\ UNCHANGED raised
    /\ UNCHANGED <<return_alerts, alerts, event, env, idx, payload,
                   s3_file_lines, ln, data, calls, expected, startLen,
                   all_skipped>>

Next ==
    \/ Run
    \/ LoadConfig
    \/ LoadEnv
    \/ ForRecord
    \/ MapSource
    \/ Dispatch
    \/ PreParseS3
    \/ S3Loop
    \/ KinesisProcess
    \/ SnsProcess
    \/ ClassifyRecord
    \/ ProcessAlerts
    \/ EndLoop
    \/ SendAlerts

Spec == Init /\ [][Next]_vars

\* ------------------------------------------------- claim vocabulary
Records == GetRecords(event)

Count(s, op) == Cardinality({k \in 1..Len(s) : s[k].op = op})

IsPrefix(a, b) == Len(a) <= Len(b) /\ SubSeq(b, 1, Len(a)) = a

\* d is line without its trailing whitespace, and nothing else removed
IsRStripOf(d, line) ==
    /\ IsPrefix(d, line)
    /\ \A k \in (Len(d) + 1)..Len(line) : line[k] \in Whitespace
    /\ d /= <<>> => d[Len(d)] \notin Whitespace

DeliveryOps == {"StreamSink.sink", "logger.info count", "logger.info dump",
                "logger.debug"}

\* the loop has taken every record and control is past it
PastLoop == pc \in {"end_loop", "send_alerts", "done"} \/
            (/\ pc = "error"
             /\ raised \in {"UnboundLocalError", "StreamSink.sink"})

\* the current payload went through map_source and came out unrecognized
SkippedSource == payload.bound /\ calls /= <<>> /\ ~payload.valid_source

\* C1: for a record whose source map_source leaves unrecognized
\* (payload.valid_source false), run makes no pre-parser, classify_record or
\* rule-evaluation call (the only collaborator call for the record is
\* map_source), and no step taken while that record's payload is the current
\* one changes the alert accumulator.
C1_UnknownSourceSkipped ==
    /\ [](SkippedSource => calls = <<Call("map_source", <<>>)>>)
    /\ [][SkippedSource => alerts' = alerts]_vars

C1_Witness ==
    /\ SkippedSource
    /\ pc = "done"
    /\ payload.service = "kinesis"
    /\ Len(Records) = 2
    /\ alerts /= <<>>

\* C2: on an instance whose accumulator was empty when run was entered, once
\* the loop is over the accumulator equals the concatenation of the rule
\* results in the order the evaluations were made, and that order is the
\* order of the data units: the record index never decreases, the line index
\* never decreases within a record, and the accumulator only ever grows at
\* its end.
C2_AccumulatorIsConcatenation ==
    /\ []((PastLoop /\ startLen = 0) => alerts = expected)
    /\ [][pc' /= "load_config" =>
            /\ idx' >= idx
            /\ (idx' = idx => ln' >= ln)
            /\ IsPrefix(alerts, alerts')]_vars

C2_Witness ==
    /\ pc = "done"
    /\ startLen = 0
    /\ idx = 2
    /\ Len(alerts) = 3
    /\ alerts[1] /= alerts[2]
    /\ payload.service = "s3"
    /\ ln = 2

\* the process_alerts invocations of the current record, in order
UnitCalls == SelectSeq(calls, LAMBDA c : c.op = "process_alerts")

S3Record == Len(calls) >= 2 /\ calls[2].op = "pre_parse_s3"

\* C3: for a valid-source s3 record, process_alerts is invoked once per line
\* taken from the pre-parser's result, in order, the k-th invocation gets the
\* k-th line right-stripped, each invocation directly follows a
\* refresh_record with the same data, the payload is the one object built
\* for the record, and when the record is finished every one of the N lines
\* has been taken.
C3_OncePerLineStripped ==
    S3Record =>
        /\ Len(UnitCalls) = ln
        /\ Count(calls, "refresh_record") = ln
        /\ ln <= Len(s3_file_lines)
        /\ \A k \in 1..ln : IsRStripOf(UnitCalls[k].data, s3_file_lines[k])
        /\ \A k \in 1..Len(calls) :
              calls[k].op = "process_alerts" =>
                  calls[k - 1] = Call("refresh_record", calls[k].data)
        /\ payload.obj = idx
        /\ (pc \in {"loop", "map_source", "end_loop", "send_alerts", "done"}
              => ln = Len(s3_file_lines))

C3_Witness ==
    /\ S3Record
    /\ pc = "loop"
    /\ ln = 2
    /\ s3_file_lines[1] /= s3_file_lines[2]
    /\ Count(calls, "StreamRules.process") = 2

\* C4: in every run send_alerts is invoked at most once and only when the
\* loop has taken every record; nothing is delivered or logged by the
\* Delivery Decision before that invocation; and once it has started no
\* further collaborator call is made for any record.
C4_DeliveryOnceAfterLoop ==
    /\ [](/\ Count(out, "send_alerts") <= 1
          /\ out /= <<>> =>
                /\ out[1].op = "send_alerts"
                /\ idx = Len(Records)
                /\ pc \in {"send_alerts", "done", "error"})
    /\ [][(out /= <<>> /\ pc' /= "load_config") => calls' = calls]_vars

C4_Witness ==
    /\ pc = "done"
    /\ Len(Records) = 2
    /\ Count(out, "StreamSink.sink") = 1
    /\ Count(calls, "StreamRules.process") = 1

\* C5: when send_alerts has run with a non-empty accumulator: in stage
\* 'development' there is no sink call; in any other stage there is exactly
\* one sink call, made with the whole accumulator and the environment
\* descriptor.
C5_SinkOnlyOutsideDevelopment ==
    (out /= <<>> /\ pc \in {"done", "error"} /\ alerts /= <<>>) =>
        IF env.lambda_alias = "development"
        THEN Count(out, "StreamSink.sink") = 0
        ELSE /\ Count(out, "StreamSink.sink") = 1
             /\ out[Len(out)] =
                    Effect("StreamSink.sink", alerts, env, NoPayload)

C5_Witness ==
    /\ pc = "done"
    /\ env.lambda_alias = "production"
    /\ Len(alerts) = 3
    /\ Count(out, "StreamSink.sink") = 1
Delivered == {k \in 1..Len(out) : out[k].op \in DeliveryOps}

\* C6: given an empty batch (no 'Records' key, or an empty list), and no
\* failure of load_config or load_env, run does not raise and performs no
\* delivery action, with or without return_alerts.
C6_EmptyBatchCompletes ==
    (/\ pc \in {"loop", "end_loop", "send_alerts", "done", "error"}
     /\ Records = <<>>
     /\ raised \notin {"load_config", "load_env"})
        => (pc /= "error" /\ Delivered = {})

\* C7: once the loop is over and run has ended without a collaborator
\* failure: with return_alerts set it has returned the accumulator and never
\* invoked send_alerts; otherwise it has invoked send_alerts exactly once,
\* with the environment descriptor and the last payload built in the loop,
\* and returned None.
C7_ReturnOrDeliverOnce ==
    (pc = "done" \/ (pc = "error" /\ raised = "UnboundLocalError")) =>
        IF return_alerts
        THEN retval = ReturnValue(alerts) /\ out = <<>>
        ELSE /\ Count(out, "send_alerts") = 1
             /\ payload.bound
             /\ payload.obj = Len(Records)
             /\ out[1] = Effect("send_alerts", <<>>, env, payload)
             /\ retval = ReturnNone

\* C8: when every record of a non-empty batch was skipped at the source gate
\* and return_alerts is not set, run ends without raising, with no sink
\* call, no alert log and no 'no alerts' trace.
C8_AllSkippedIsNoOp ==
    (/\ pc \in {"send_alerts", "done", "error"}
     /\ PastLoop
     /\ Records /= <<>>
     /\ all_skipped
     /\ ~return_alerts)
        => (pc /= "error" /\ Delivered = {})

\* C9: a data unit that classify_record left invalid costs exactly one
\* logger.error call and nothing else: no rule evaluation, no change of the
\* accumulator, no exception; control goes back to the head of the loop it
\* came from with the loop's position unchanged, and a loop head that has a
\* line or a record left always takes it.
C9_InvalidUnitDropped ==
    /\ [][(pc = "valid_check" /\ ~payload.valid) =>
            /\ calls' = Append(calls, Call("logger.error", data))
            /\ alerts' = alerts
            /\ raised' = "none"
            /\ pc' = (IF S3Record THEN "s3_loop" ELSE "loop")
            /\ UNCHANGED <<idx, ln, s3_file_lines, event, out, payload>>]_vars
    /\ [][(pc = "s3_loop" /\ ln < Len(s3_file_lines)) =>
            (ln' = ln + 1 /\ pc' = "classify_record")]_vars
    /\ [][(pc = "loop" /\ idx < Len(Records)) =>
            (idx' = idx + 1 /\ pc' = "map_source")]_vars

C9_Witness ==
    /\ pc = "done"
    /\ S3Record
    /\ ln = 2
    /\ idx = 2
    /\ Count(calls, "logger.error") = 1
    /\ calls[Len(calls)].op = "StreamRules.process"
    /\ alerts /= <<>>

\* C10: an exception raised by a collaborator ends run in the error state at
\* once: the raising step changes neither the accumulator nor the loop
\* position nor the calls made, the only step possible afterwards is a new
\* invocation of run, nothing is returned, and unless the sink itself raised
\* send_alerts was not entered and nothing was delivered.
C10_CollaboratorFailureIsFatal ==
    /\ []((raised /= "none") <=> (pc = "error"))
    /\ []((pc = "error" /\ raised /= "UnboundLocalError") =>
            /\ retval = NotReturned
            /\ raised /= "StreamSink.sink" => out = <<>>)
    /\ [][pc = "error" => pc' = "load_config"]_vars
    /\ [][(raised = "none" /\ raised' /= "none") =>
            UNCHANGED <<alerts, idx, ln, calls, retval, payload>>]_vars

C10_Witness ==
    /\ pc = "error"
    /\ raised = "classify_record"
    /\ idx < Len(Records)
    /\ startLen = 0
    /\ alerts /= <<>>
\* a step in which StreamRules.process is called (it returns or raises)
RuleEvalStep ==
    \/ calls' = Append(calls, Call("StreamRules.process", data))
    \/ (raised = "none" /\ raised' = "StreamRules.process")

\* C11: rule evaluation is invoked for a data unit exactly when
\* classify_record, the last call made before the decision and made with
\* that same data unit, left payload.valid true; rule evaluation happens at
\* no other place, so for the lines of one archive record each decision reads
\* the flag as the classification of that very line left it.
C11_RulesIffClassifiedValid ==
    /\ [](pc = "valid_check" =>
            /\ Len(calls) >= 3
            /\ calls[Len(calls)] = Call("classify_record", data)
            /\ calls[Len(calls) - 1] = Call("process_alerts", data))
    /\ [][pc = "valid_check" => (RuleEvalStep <=> payload.valid)]_vars
    /\ [][RuleEvalStep => pc = "valid_check"]_vars

C11_Witness ==
    /\ S3Record
    /\ pc = "s3_loop"
    /\ ln = 2
    /\ ~payload.valid
    /\ Count(calls, "StreamRules.process") = 1
    /\ calls[Len(calls)] = Call("logger.error", data)
    /\ calls[Len(calls) - 4].op = "StreamRules.process"

\* C12: when send_alerts has run with an empty accumulator there is no sink
\* call and no alert log, whatever the stage; the 'no alerts' debug trace is
\* made exactly when the valid flag of the last payload built in the loop is
\* true, so a last payload that is invalid, or that was skipped at the source
\* gate, leaves send_alerts without any action.
C12_EmptyAccumulatorOnlyTraces ==
    (pc = "done" /\ out /= <<>> /\ alerts = <<>>) =>
        /\ payload.obj = Len(Records)
        /\ Count(out, "StreamSink.sink") = 0
        /\ Count(out, "logger.info count") = 0
        /\ Count(out, "logger.info dump") = 0
        /\ Count(out, "logger.debug") = (IF payload.valid THEN 1 ELSE 0)
        /\ Len(out) = (IF payload.valid THEN 2 ELSE 1)
        /\ SkippedSource => Delivered = {}

C12_Witness ==
    /\ pc = "done"
    /\ alerts = <<>>
    /\ env.lambda_alias = "production"
    /\ payload.valid
    /\ Len(Records) = 2
    /\ Count(out, "logger.debug") = 1

\* the current record's processing is over and nothing was raised in it
RecordOver ==
    payload.bound /\ pc \in {"loop", "end_loop", "send_alerts", "done"}

ExtractionOps == {"pre_parse_s3", "pre_parse_kinesis", "pre_parse_sns"}

Extractions == {k \in 1..Len(calls) : calls[k].op \in ExtractionOps}

\* C13: for each record map_source is called exactly once and is the first
\* call, so every pre-parser call comes after it; every process_alerts
\* invocation (one per extracted data unit, after the extraction) is followed
\* by exactly one classify_record call with that unit, and there is no other
\* classify_record call.
C13_GateThenExtractThenClassify ==
    /\ (payload.bound /\ pc /= "map_source" /\ raised /= "map_source") =>
          /\ calls /= <<>>
          /\ calls[1].op = "map_source"
          /\ Count(calls, "map_source") = 1
    /\ \A k \in Extractions : k = 2
    /\ \A k \in 1..Len(calls) :
          /\ calls[k].op = "process_alerts" => Extractions = {2} /\ k > 2
          /\ calls[k].op = "classify_record" =>
                calls[k - 1] = Call("process_alerts", calls[k].data)
    /\ RecordOver =>
          Count(calls, "classify_record") = Count(calls, "process_alerts")
    /\ Count(calls, "classify_record") <= Count(calls, "process_alerts")

C13_Witness ==
    /\ RecordOver
    /\ S3Record
    /\ Count(calls, "classify_record") = 2
    /\ idx = 2

\* the current payload has a recognized source and a service that is none of
\* the three the handler knows, and the dispatch has been made
UnsupportedService ==
    /\ payload.bound
    /\ payload.valid_source
    /\ payload.service \notin {"s3", "kinesis", "sns"}
    /\ pc /= "gate"

\* C14: a record with a recognized source whose service is none of 's3',
\* 'kinesis', 'sns' gets exactly one logger.info call and, apart from
\* map_source, no other call; no step changes the accumulator while its
\* payload is the current one, and the dispatch step goes back to the head
\* of the loop, which takes the next record if there is one.
C14_UnsupportedServiceLogged ==
    /\ [](UnsupportedService =>
            calls = <<Call("map_source", <<>>), Call("logger.info", <<>>)>>)
    /\ [][UnsupportedService => alerts' = alerts]_vars
    /\ [][(pc = "gate" /\ payload.valid_source
              /\ payload.service \notin {"s3", "kinesis", "sns"}) =>
            (pc' = "loop" /\ UNCHANGED <<idx, event, raised>>)]_vars
    /\ [][(pc = "loop" /\ idx < Len(Records)) => idx' = idx + 1]_vars

C14_Witness ==
    /\ UnsupportedService
    /\ payload.obj = 1
    /\ pc = "loop"
    /\ Len(Records) = 2

\* C15: the alerts a run returns or delivers are exactly the alerts the rule
\* engine returned for that run's own batch, also when run is called again on
\* the same instance.
C15_RunsAreIsolated ==
    /\ (pc = "done" /\ return_alerts) => retval.value = expected
    /\ \A k \in Delivered : out[k].op /= "logger.debug" =>
                               out[k].alerts = expected

\* the current payload has a recognized source and is a kinesis or sns record
StreamRecord ==
    /\ payload.bound
    /\ payload.valid_source
    /\ payload.service \in {"kinesis", "sns"}
    /\ pc /= "gate"

\* C16: for a kinesis or sns record with a recognized source the only
\* pre-parser call is the one of the record's own kind, process_alerts is
\* invoked once, with exactly the data that call returned (an empty result
\* included), refresh_record is never called, and when the record is over
\* both calls have been made.
C16_StreamRecordOneUnit ==
    StreamRecord =>
        /\ \A k \in Extractions :
              /\ k = 2
              /\ calls[k].op = (IF payload.service = "kinesis"
                                THEN "pre_parse_kinesis" ELSE "pre_parse_sns")
              /\ Len(calls) >= 3
              /\ calls[3] = Call("process_alerts", calls[2].data)
              /\ data = calls[2].data
        /\ Count(calls, "process_alerts") <= 1
        /\ Count(calls, "refresh_record") = 0
        /\ RecordOver =>
              (Extractions = {2} /\ Count(calls, "process_alerts") = 1)

C16_Witness ==
    /\ StreamRecord
    /\ RecordOver
    /\ payload.service = "sns"
    /\ data = <<>>
    /\ Count(calls, "StreamRules.process") = 1

\* C17: the accumulator is append-only: in every step its old value is a
\* prefix of its new value, and it changes only in the step of process_alerts
\* that evaluates the rules on a valid payload and gets at least one alert;
\* the gate, the extractors, send_alerts and a new invocation of run leave it
\* as it is.
C17_AccumulatorAppendOnly ==
    [][/\ IsPrefix(alerts, alerts')
       /\ alerts' /= alerts =>
             /\ pc = "valid_check"
             /\ payload.valid
             /\ calls' = Append(calls, Call("StreamRules.process", data))
             /\ expected' /= expected
             /\ Len(alerts') - Len(alerts) = Len(expected') - Len(expected)
       /\ pc \in {"ready", "load_config", "load_env", "loop", "map_source",
                  "gate", "pre_parse_s3", "pre_parse_kinesis",
                  "pre_parse_sns", "s3_loop", "classify_record", "end_loop",
                  "send_alerts", "done", "error"} => alerts' = alerts]_vars

C17_Witness ==
    /\ pc = "done"
    /\ startLen = 1
    /\ Len(alerts) = 3
    /\ Len(expected) = 2
    /\ Count(out, "StreamSink.sink") = 1
====
